---- MODULE Spec2Model ----
(***************************************************************************)
(* Model of the session reconciliation and message-lifecycle engine of     *)
(* bz2-watchbot: BZBot.check_sessions, BZBot.mark_session_ended and        *)
(* BZBot.send_discord_notification (src/main.py), driven by the poll loop  *)
(* of BZBot.run.  Every HTTP request is one step whose outcome (status or  *)
(* raised exception) is chosen by the environment.                         *)
(***************************************************************************)
EXTENDS Integers, Sequences, FiniteSets, TLC

(* Bound: number of check_sessions cycles the poll loop of BZBot.run starts. *)
MaxPolls == 3

(* Bound: number of requests to Discord, over the whole run, that end in
   anything but success. *)
MaxFailures == 1

(***************************************************************************)
(* Configuration (src/config.py)                                           *)
(***************************************************************************)

(* config.DISCORD_WEBHOOKS, in dictionary (insertion) order; both URLs valid *)
DISCORD_WEBHOOKS == <<"VSRCORD", "STRATCORD">>

WebhookSet == {DISCORD_WEBHOOKS[i] : i \in DOMAIN DISCORD_WEBHOOKS}

MONITORED_STEAM_IDS ==
    {"76561198006115793", "76561198846500539", "76561198824607769",
     "76561197962996353", "76561198076339639", "76561198820311491",
     "76561198026325621", "76561199653748651", "76561198825563594"}

(***************************************************************************)
(* Upstream sessions (the inputs)                                          *)
(***************************************************************************)

SessionIds == {"A", "B"}

(* a player on the roster (by Steam id) and one who is not *)
Host  == [Name |-> "Domakus", Steam |-> "76561198006115793", Gog |-> ""]
Guest == [Name |-> "guest", Steam |-> "76561190000000001", Gog |-> ""]

(* a first player whose entry has no Steam id, no GOG id and no name *)
Anonymous == [Name |-> "", Steam |-> "", Gog |-> ""]

MkSession(id, name, mode, state, players) ==
    [ID |-> id, Name |-> name, GameMode |-> mode, State |-> state,
     Players |-> players, PlayerCount |-> Len(players)]

(* the contents a session with a given ID can have in a snapshot *)
RelevantVariants(id) ==
    { MkSession(id, "game", "STRAT", "PreGame", <<Host>>),
      MkSession(id, "game", "STRAT", "PreGame", <<Host, Guest>>),
      MkSession(id, "game", "STRAT", "InGame", <<Host, Guest>>) }

IrrelevantVariants(id) ==
    { MkSession(id, "game", "STRAT", "PreGame", <<Guest>>),
      MkSession(id, "TEST", "STRAT", "PreGame", <<Host>>),
      MkSession(id, "game", "STRAT", "PreGame", <<>>),
      MkSession(id, "game", "STRAT", "PreGame", <<Anonymous>>),
      MkSession(id, "game", "MPI", "PreGame", <<Host>>) }

Variants(id) ==
    IF id = "A" THEN RelevantVariants(id) \cup IrrelevantVariants(id)
    ELSE { MkSession(id, "game", "STRAT", "PreGame", <<Host>>) }

(* the contents of A in the snapshots that list two sessions: one the filter
   accepts and one it rejects *)
PairedVariants ==
    { MkSession("A", "game", "STRAT", "PreGame", <<Host>>),
      MkSession("A", "game", "STRAT", "PreGame", <<>>) }

(* the 'ID' of an entry that has no 'ID' key; "" is an empty 'ID' *)
Missing == "<missing>"

(* entries the upstream lists without a usable 'ID' *)
NamelessVariants ==
    { MkSession("", "game", "STRAT", "PreGame", <<Host>>),
      MkSession(Missing, "game", "STRAT", "PreGame", <<Host>>) }

(* api_response['Sessions']: a list of sessions with pairwise distinct IDs *)
Snapshots ==
    {<<>>}
    \cup { <<s>> : s \in UNION {Variants(id) : id \in SessionIds} }
    \cup { <<s, t>> : s \in PairedVariants, t \in Variants("B") }
    \cup { <<s, t>> : s \in NamelessVariants, t \in Variants("B") }

None == [ok |-> FALSE, Sessions |-> <<>>]

(***************************************************************************)
(* Dictionaries                                                            *)
(***************************************************************************)

EmptyDict == [x \in {} |-> 0]

Put(d, k, v) == [x \in (DOMAIN d) \cup {k} |-> IF x = k THEN v ELSE d[x]]

Pop(d, k) == [x \in (DOMAIN d) \ {k} |-> d[x]]

Get(d, k, default) == IF k \in DOMAIN d THEN d[k] ELSE default

(* active_sessions is an insertion-ordered dict: a sequence of sessions *)
Keys(as) == [i \in 1..Len(as) |-> as[i].ID]

Has(as, sid) == \E i \in 1..Len(as) : as[i].ID = sid

GetS(as, sid) == as[CHOOSE i \in 1..Len(as) : as[i].ID = sid]

PutS(as, s) ==
    IF Has(as, s.ID)
    THEN [i \in 1..Len(as) |-> IF as[i].ID = s.ID THEN s ELSE as[i]]
    ELSE Append(as, s)

KeepOther(s, sid) == s.ID # sid

PopS(as, sid) == SelectSeq(as, LAMBDA s : KeepOther(s, sid))

(***************************************************************************)
(* Monitored-session filter                                                *)
(***************************************************************************)

(* str.lower() on the session names of the model *)
Lower(name) == IF name = "TEST" \/ name = "Test" THEN "test" ELSE name

(* lines 527-528 left out: a game named 'test' is not filtered *)
has_monitored_player_no_test_check(session) ==
    IF session.GameMode # "STRAT" THEN FALSE
    ELSE IF Len(session.Players) = 0 THEN FALSE
    ELSE LET host_player == session.Players[1] IN
         IF host_player.Steam # "" /\ host_player.Steam \in MONITORED_STEAM_IDS THEN TRUE
         ELSE IF host_player.Gog # "" /\ host_player.Gog \in MONITORED_STEAM_IDS THEN TRUE
         ELSE host_player.Name \in MONITORED_STEAM_IDS

(* line 557 returning True: a host that matches nothing is accepted *)
has_monitored_player_any_host(session) ==
    IF Lower(session.Name) = "test" THEN FALSE
    ELSE IF session.GameMode # "STRAT" THEN FALSE
    ELSE Len(session.Players) # 0

(* lines 526-557 *)
has_monitored_player(session) ==
    IF Lower(session.Name) = "test" THEN FALSE
    ELSE IF session.GameMode # "STRAT" THEN FALSE
    ELSE IF Len(session.Players) = 0 THEN FALSE
    ELSE LET host_player == session.Players[1] IN
         IF host_player.Steam # "" /\ host_player.Steam \in MONITORED_STEAM_IDS THEN TRUE
         ELSE IF host_player.Gog # "" /\ host_player.Gog \in MONITORED_STEAM_IDS THEN TRUE
         ELSE host_player.Name \in MONITORED_STEAM_IDS

(***************************************************************************)
(* State                                                                   *)
(***************************************************************************)

VARIABLES
    active_sessions,     \* BZBot.active_sessions: ordered dict id -> last processed session
    player_counts,       \* BZBot.player_counts: id -> PlayerCount.Player
    last_known_states,   \* BZBot.last_known_states: id -> Status.State
    last_api_responses,  \* BZBot.last_api_responses: the ids it has a key for
    message_ids,         \* BZBot.message_ids: webhook -> (id -> message identifier)
    api_response,        \* the result of fetch_api_data in the running cycle
    pc,                  \* position of the running check_sessions cycle
    keys,                \* list(self.active_sessions.keys()) of line 571
    ek,                  \* index into keys (loop of line 571)
    si,                  \* index into api_response['Sessions'] (loop of line 577)
    wi,                  \* webhook index of the loops of lines 605, 652 and 707
    ni,                  \* webhook index of the loop of line 425
    ret,                 \* call site send_discord_notification returns to
    orphans,             \* per (id, webhook) slot: live messages the directory dropped
    sent,                \* the requests of the running cycle for the session in focus
    outcome,             \* how the request of the last step ended ("none": no request)
    focus,               \* the session the running cycle is handling or handled last
    reached,             \* the sessions the running cycle has begun to handle
    pre,                 \* the bot's dictionaries when the running cycle began
    aborted,             \* the running cycle ended in the handler of line 673
    create_failed,       \* (id, webhook) slots left empty by a failed Create
    notfound,            \* (id, webhook) slots whose Patch got 404 in the running cycle
    fresh,               \* ids whose record equals their entry in the last fetched snapshot
    polls,               \* cycles started so far
    failures,            \* requests that did not succeed so far
    stale,               \* slots holding an identifier stored before a snapshot without the session
    ended,               \* slots whose identifier has been sent a MarkEnded
    handled,             \* sessions whose restart was handled and is not yet on record
    patch_failed,        \* slots whose last Patch got another status than 200/204/404 or raised
    created,             \* slots whose identifier a Create of the last fetched cycle stored
    tagged,              \* per slot: Creates with a mention tag since the session was last absent
    previous_players_list, \* line 635: the names on the roster of the record
    current_players_list,  \* line 634: the names on the roster of the snapshot
    message,             \* lines 640 and 645: the change the count message reports
    raw_configs,         \* config.py line 20: webhook -> URL read from the environment
    valid_configs,       \* config.py line 45: the webhooks validate_webhook_configs returns
    directories,         \* main.py line 74: the webhooks message_ids has a directory for
    process,             \* run.py: handler.process (0: None, else the child it refers to)
    reloading,           \* run.py: handler.reloading
    last_reload,         \* run.py: handler.last_reload
    now,                 \* run.py: time.time()
    alive,               \* run.py: the children started by Popen and not killed
    spawned,             \* run.py: calls of Popen so far
    events,              \* run.py: events the observer has dispatched so far
    main_pc,             \* run.py: position of the main thread in main()
    main_child,          \* run.py line 53: the Popen object before it is stored
    obs_pc,              \* run.py: position of the observer thread in on_modified
    obs_child            \* run.py line 43: the Popen object before it is stored

bot == <<active_sessions, player_counts, last_known_states, last_api_responses, message_ids>>

frame == <<api_response, pc, keys, ek, si, wi, ni, ret>>

ghost == <<orphans, sent, outcome, focus, reached, pre, aborted, create_failed, notfound, fresh, polls, failures>>

memo == <<stale, ended, handled, patch_failed, created, tagged>>

(* the variables of the roster diff and of the webhook validation *)
(* the variables of the supervisor of run.py *)
supervisor == <<process, reloading, last_reload, now, alive, spawned, events,
                main_pc, main_child, obs_pc, obs_child>>

pure == <<previous_players_list, current_players_list, message,
          raw_configs, valid_configs, directories, supervisor>>

vars == <<bot, frame, ghost, memo, pure>>

NoPre == [active_sessions |-> <<>>,
          message_ids |-> [w \in WebhookSet |-> EmptyDict],
          last_known_states |-> EmptyDict,
          player_counts |-> EmptyDict,
          create_failed |-> {},
          patch_failed |-> {},
          created |-> {},
          failures |-> 0]

(* the roster diff and the webhook validation are not under study *)
(* run.py line 31: a reload is ignored less than 2 seconds after the last *)
Debounce == 2

(* run.py lines 16-19 and 48-50: the handler and the observer are built, the
   observer is not started; time.time() is more than Debounce seconds past 0 *)
SupervisorInit ==
    /\ process = 0
    /\ reloading = FALSE
    /\ last_reload = 0
    /\ now = Debounce
    /\ alive = {}
    /\ spawned = 0
    /\ events = 0
    /\ main_pc = "start"
    /\ main_child = 0
    /\ obs_pc = "idle"
    /\ obs_child = 0

PureIdle ==
    /\ previous_players_list = {}
    /\ current_players_list = {}
    /\ message = <<>>
    /\ raw_configs = <<>>
    /\ valid_configs = <<>>
    /\ directories = {}
    /\ SupervisorInit

(* BZBot.__init__ (lines 70-86) *)
BotInit ==
    /\ active_sessions = <<>>
    /\ player_counts = EmptyDict
    /\ last_known_states = EmptyDict
    /\ last_api_responses = {}
    /\ message_ids = [w \in WebhookSet |-> EmptyDict]
    /\ api_response = None
    /\ pc = "idle"
    /\ keys = <<>>
    /\ ek = 1 /\ si = 1 /\ wi = 1 /\ ni = 1
    /\ ret = "none"
    /\ orphans = [slot \in SessionIds \X WebhookSet |-> 0]
    /\ sent = <<>>
    /\ outcome = "none"
    /\ focus = "none"
    /\ reached = {}
    /\ pre = NoPre
    /\ aborted = FALSE
    /\ create_failed = {}
    /\ notfound = {}
    /\ fresh = {}
    /\ polls = 0
    /\ failures = 0
    /\ stale = {}
    /\ ended = {}
    /\ handled = {}
    /\ patch_failed = {}
    /\ created = {}
    /\ tagged = [slot \in SessionIds \X WebhookSet |-> 0]

Init == BotInit /\ PureIdle

(***************************************************************************)
(* Requests and their outcomes                                             *)
(***************************************************************************)

(* A POST answers 200 ("ok"), another status ("fail"), or raises ("exc"). *)
PostOutcomes == {"ok", "fail", "exc"}

(* A PATCH answers 200/204 ("ok"), 404, another status ("fail"), or raises. *)
PatchOutcomes == {"ok", "404", "fail", "exc"}

(* the environment may let a request fail while the bound allows it *)
Allowed(o) == o # "ok" => failures < MaxFailures

Counted(o) == IF o = "ok" \/ o = "none" THEN failures ELSE failures + 1

(* a request as it left the bot: kind, slot, the identifier addressed (PATCH)
   or stored from the answer (POST; 0 if none), the identifier the directory
   held for the slot when the request was sent (0 if none), the session
   the payload was rendered from, and the mention tag in its content (only
   the content of line 474 has one) *)
Req(kind, sid, wh, mid, held, payload) ==
    [kind |-> kind, sid |-> sid, wh |-> wh, mid |-> mid, held |-> held,
     payload |-> payload, tag |-> ""]

(* A message is live from the 200 answer to its POST until an end-of-life
   update for it is accepted or Discord answers 404 for it.  The directory
   entry of a slot always names a live message; orphans counts the live
   messages of a slot that no entry names any more (2 stands for "two or
   more": an orphan is never addressed again, so the count never falls). *)
Orphaned(sid, wh) ==
    [orphans EXCEPT ![<<sid, wh>>] = IF @ < 2 THEN @ + 1 ELSE @]

(* the entry of a slot is removed after an end-of-life PATCH that ended as o *)
Dropped(sid, wh, o) ==
    IF o = "ok" \/ o = "404" THEN orphans ELSE Orphaned(sid, wh)

(* identifiers are opaque: Discord answers a POST with an identifier that
   differs from every identifier of the slot the bot or the cycle's record
   of requests still refers to *)
UsedIds(sid, wh) ==
    {Get(message_ids[wh], sid, 0), Get(pre.message_ids[wh], sid, 0)}
    \cup {sent[i].mid : i \in {j \in 1..Len(sent) : sent[j].sid = sid /\ sent[j].wh = wh}}

NewId(sid, wh) == CHOOSE id \in 1..(Cardinality(UsedIds(sid, wh)) + 1) :
                     /\ id \notin UsedIds(sid, wh)
                     /\ \A other \in 1..(id - 1) : other \in UsedIds(sid, wh)

(* the slots of S whose directory entry the step leaves as it is *)
Kept(S) ==
    {slot \in S : /\ slot[1] \in DOMAIN message_ids[slot[2]]
                  /\ slot[1] \in DOMAIN message_ids'[slot[2]]
                  /\ message_ids'[slot[2]][slot[1]] = message_ids[slot[2]][slot[1]]}

Sessions == api_response.Sessions

current_session_ids == {Sessions[i].ID : i \in 1..Len(Sessions)}

(***************************************************************************)
(* check_sessions: fetch and the loop over ended sessions                  *)
(***************************************************************************)

(* fetch_api_data returns None on any failure, else the decoded document *)
FetchResults == {None} \cup {[ok |-> TRUE, Sessions |-> s] : s \in Snapshots}

(* the snapshot r lists no session with this ID *)
Absent(r, session_id) == \A i \in 1..Len(r.Sessions) : r.Sessions[i].ID # session_id

(* the slots that hold an identifier for a session the snapshot r lacks *)
AbsentSlots(r) ==
    {slot \in SessionIds \X WebhookSet :
        /\ slot[1] \in DOMAIN message_ids[slot[2]]
        /\ Absent(r, slot[1])}

(* the sessions of handled that the snapshot r still lists in the lobby *)
StillLobby(r) ==
    {sid \in handled : \E i \in 1..Len(r.Sessions) :
                          r.Sessions[i].ID = sid /\ r.Sessions[i].State = "PreGame"}

(* lines 562-563 left out: the cycle goes on without a snapshot *)
AfterFetchNoReturn(r) == "ended_loop"

(* lines 562-563: "if not api_response: return" *)
AfterFetch(r) == IF r.ok THEN "ended_loop" ELSE "done"

(* line 568: session['ID'] raises KeyError for an entry without the key; the
   handler of line 673 ends the cycle *)
RaisesKeyError(r) == \E i \in 1..Len(r.Sessions) : r.Sessions[i].ID = Missing

(* lines 686-689 with the await of check_sessions left out: a cycle may be
   started while another has not returned *)
MayStartCycleAnytime == pc # "stopped"

(* lines 686-689: "await self.check_sessions()" and then the sleep: the loop
   calls check_sessions again only after the call has returned and the sleep
   is over *)
MayStartCycle == pc = "idle"

(* lines 561-568: fetch, and the keys of the loop of line 571 *)
FetchApiData ==
    /\ MayStartCycle
    /\ \E r \in FetchResults :
        /\ api_response' = r
        /\ pc' = IF RaisesKeyError(r) THEN "done" ELSE AfterFetch(r)
        /\ keys' = IF pc' = "done" THEN <<>> ELSE Keys(active_sessions)
        /\ aborted' = RaisesKeyError(r)
    /\ pre' = [active_sessions |-> active_sessions,
               message_ids |-> message_ids,
               last_known_states |-> last_known_states,
               player_counts |-> player_counts,
               create_failed |-> create_failed,
               patch_failed |-> patch_failed,
               created |-> IF pc' = "done" THEN {} ELSE created,
               failures |-> failures]
    /\ outcome' = "none"
    /\ stale' = IF pc' = "done" THEN stale ELSE stale \cup AbsentSlots(api_response')
    /\ handled' = IF pc' = "done" THEN handled ELSE StillLobby(api_response')
    /\ created' = IF pc' = "done" THEN created ELSE {}
    /\ tagged' = [slot \in SessionIds \X WebhookSet |->
                    IF api_response'.ok /\ Absent(api_response', slot[1])
                    THEN 0 ELSE tagged[slot]]
    /\ UNCHANGED <<bot, ek, si, wi, ni, ret, ended, patch_failed>>
    /\ UNCHANGED <<orphans, sent, focus, reached, create_failed, notfound, fresh, failures>>
    /\ UNCHANGED pure

(* lines 686-688 and 559-568: a cycle of the bounded run *)
CheckSessionsBegin ==
    /\ polls < MaxPolls
    /\ polls' = polls + 1
    /\ FetchApiData

(* lines 571-575: for session_id in list(self.active_sessions.keys()) *)
EndedLoop ==
    /\ pc = "ended_loop"
    /\ IF ek > Len(keys)
       THEN pc' = "session_loop" /\ UNCHANGED <<ek, sent, focus, reached>>
       ELSE IF keys[ek] \notin current_session_ids
            THEN /\ pc' = "mark_ended"
                 /\ sent' = <<>>
                 /\ focus' = keys[ek]
                 /\ reached' = reached \cup {keys[ek]}
                 /\ UNCHANGED ek
            ELSE /\ pc' = "ended_loop"
                 /\ ek' = ek + 1
                 /\ UNCHANGED <<sent, focus, reached>>
    /\ outcome' = "none"
    /\ UNCHANGED <<bot, api_response, keys, si, wi, ni, ret, memo>>
    /\ UNCHANGED pure
    /\ UNCHANGED <<orphans, pre, aborted, create_failed, notfound, fresh, polls, failures>>

(* lines 574 and 609 passing the entry of the new snapshot where it has one *)
EndedEmbedSourceCurrent(session_id) ==
    IF \E i \in 1..Len(Sessions) : Sessions[i].ID = session_id
    THEN Sessions[CHOOSE i \in 1..Len(Sessions) : Sessions[i].ID = session_id]
    ELSE GetS(active_sessions, session_id)

(* lines 574 and 609: the embed of an ended game is rendered from
   self.active_sessions[session_id] *)
EndedEmbedSource(session_id) == GetS(active_sessions, session_id)

(* line 708 reaching the first webhook only *)
HasMessageAtFirst(webhook_id, session_id) ==
    /\ webhook_id = DISCORD_WEBHOOKS[1]
    /\ session_id \in DOMAIN message_ids[webhook_id]

(* line 708: if session_id in self.message_ids[webhook_id] *)
HasMessage(webhook_id, session_id) ==
    session_id \in DOMAIN message_ids[webhook_id]

(* lines 836-838 only: line 839 left out, the last known state is kept *)
ForgetSessionKeepingState(session_id) ==
    /\ active_sessions' = PopS(active_sessions, session_id)
    /\ player_counts' = Pop(player_counts, session_id)
    /\ last_api_responses' = last_api_responses \ {session_id}
    /\ UNCHANGED last_known_states

(* lines 836-839 *)
ForgetSession(session_id) ==
    /\ active_sessions' = PopS(active_sessions, session_id)
    /\ player_counts' = Pop(player_counts, session_id)
    /\ last_known_states' = Pop(last_known_states, session_id)
    /\ last_api_responses' = last_api_responses \ {session_id}

(* lines 704-840: one webhook of the loop of mark_session_ended, or, after
   the last webhook, the clean-up of lines 836-840.  The PATCH of line 826
   is outside any try block of mark_session_ended: when it raises, the
   exception leaves check_sessions through the handler of line 673. *)
MarkSessionEnded ==
    /\ pc = "mark_ended"
    /\ LET session_id == keys[ek] IN
       IF wi > Len(DISCORD_WEBHOOKS)
       THEN /\ ForgetSession(session_id)
            /\ create_failed' = {p \in create_failed : p[1] # session_id}
            /\ pc' = "ended_loop"
            /\ ek' = ek + 1
            /\ wi' = 1
            /\ outcome' = "none"
            /\ UNCHANGED <<message_ids, orphans, sent, aborted>>
       ELSE LET webhook_id == DISCORD_WEBHOOKS[wi] IN
            IF HasMessage(webhook_id, session_id)
            THEN LET message_id == message_ids[webhook_id][session_id] IN
                 \E o \in PatchOutcomes :
                    /\ sent' = Append(sent, Req("MarkEnded", session_id, webhook_id,
                                   message_id, message_id, EndedEmbedSource(session_id)))
                    /\ Allowed(o)
                    /\ outcome' = o
                    /\ orphans' = IF o = "exc" THEN orphans ELSE Dropped(session_id, webhook_id, o)
                    /\ IF o = "exc"
                       THEN /\ pc' = "done"
                            /\ aborted' = TRUE
                            /\ UNCHANGED <<message_ids, wi>>
                       ELSE /\ message_ids' = [message_ids EXCEPT
                                                 ![webhook_id] = Pop(@, session_id)]
                            /\ wi' = wi + 1
                            /\ UNCHANGED <<pc, aborted>>
                    /\ UNCHANGED <<active_sessions, player_counts, last_known_states,
                                   last_api_responses, create_failed, ek>>
            ELSE /\ wi' = wi + 1
                 /\ outcome' = "none"
                 /\ UNCHANGED <<bot, pc, ek, orphans, sent, aborted, create_failed>>
    /\ UNCHANGED <<api_response, keys, si, ni, ret>>
    /\ failures' = Counted(outcome')
    /\ stale' = Kept(stale)
    /\ ended' = IF outcome' = "exc"
                THEN ended \cup {<<keys[ek], DISCORD_WEBHOOKS[wi]>>}
                ELSE Kept(ended)
    /\ patch_failed' = Kept(patch_failed)
    /\ created' = Kept(created)
    /\ UNCHANGED tagged
    /\ handled' = IF wi > Len(DISCORD_WEBHOOKS) THEN handled \ {keys[ek]} ELSE handled
    /\ UNCHANGED <<focus, reached, pre, notfound, fresh, polls>>
    /\ UNCHANGED pure

(***************************************************************************)
(* check_sessions: the loop over the sessions of the snapshot              *)
(***************************************************************************)

(* every call site (lines 596, 627, 666) passes is_new=True *)
is_new == TRUE

(* line 592 *)
needs_new_message(session_id) ==
    \/ ~Has(active_sessions, session_id)
    \/ ~(\E w \in WebhookSet : session_id \in DOMAIN message_ids[w])

(* line 601 with the test of the previous state left out *)
IsRestartAnyLobby(previous_state, current_state) ==
    current_state = "PreGame"

(* line 601 with the two states exchanged *)
IsRestartSwapped(previous_state, current_state) ==
    previous_state = "PreGame" /\ current_state = "InGame"

(* line 601 *)
IsRestart(previous_state, current_state) ==
    previous_state = "InGame" /\ current_state = "PreGame"

(* line 633 never true: no player-count message is posted *)
PlayerCountPostsNever(session) == <<>>

(* lines 630-648 and send_player_count_notification (501-524): when the count
   changed, one plain POST per webhook; no response or exception changes
   anything *)
PlayerCountPosts(session) ==
    IF session.PlayerCount # Get(player_counts, session.ID, 0)
    THEN [i \in 1..Len(DISCORD_WEBHOOKS) |->
            Req("CountPost", session.ID, DISCORD_WEBHOOKS[i], 0, 0, session)]
    ELSE <<>>

(* lines 669-671 only: line 668 left out, the session is not put on record *)
RecordSessionWithoutSnapshot(session) ==
    /\ player_counts' = Put(player_counts, session.ID, session.PlayerCount)
    /\ last_known_states' = Put(last_known_states, session.ID, session.State)
    /\ last_api_responses' = last_api_responses \cup {session.ID}
    /\ UNCHANGED active_sessions

(* lines 668-671 *)
RecordSession(session) ==
    /\ active_sessions' = PutS(active_sessions, session)
    /\ player_counts' = Put(player_counts, session.ID, session.PlayerCount)
    /\ last_known_states' = Put(last_known_states, session.ID, session.State)
    /\ last_api_responses' = last_api_responses \cup {session.ID}

(* lines 577-601: pick the next session and classify it *)
SessionLoop ==
    /\ pc = "session_loop"
    /\ IF si > Len(Sessions)
       THEN pc' = "done" /\ UNCHANGED <<si, ret, sent, focus, reached>>
       ELSE LET session == Sessions[si]
                session_id == session.ID
                previous_state == Get(last_known_states, session_id, "None")
            IN
            IF session_id = "" \/ ~has_monitored_player(session)
            THEN pc' = "session_loop" /\ si' = si + 1 /\ UNCHANGED <<ret, sent, focus, reached>>
            ELSE /\ focus' = session_id
                 /\ reached' = reached \cup {session_id}
                 /\ UNCHANGED si
                 /\ IF needs_new_message(session_id)
                    THEN pc' = "notify" /\ ret' = "new" /\ sent' = <<>>
                    ELSE IF IsRestart(previous_state, session.State)
                    THEN pc' = "restart" /\ sent' = <<>> /\ UNCHANGED ret
                    ELSE /\ pc' = "update"
                         /\ sent' = PlayerCountPosts(session)
                         /\ UNCHANGED ret
    /\ outcome' = "none"
    /\ UNCHANGED <<bot, api_response, keys, ek, wi, ni, memo>>
    /\ UNCHANGED pure
    /\ UNCHANGED <<orphans, pre, aborted, create_failed, notfound, fresh, polls, failures>>

(* lines 605-623: mark the old embed ended in one webhook; the identifier is
   removed whatever the request did (the try of line 608 catches) *)
RestartEnd ==
    /\ pc = "restart"
    /\ LET session_id == Sessions[si].ID IN
       IF wi > Len(DISCORD_WEBHOOKS)
       THEN /\ pc' = "notify"
            /\ ret' = "restart"
            /\ wi' = 1
            /\ outcome' = "none"
            /\ UNCHANGED <<message_ids, orphans, sent>>
       ELSE LET webhook_id == DISCORD_WEBHOOKS[wi] IN
            IF session_id \in DOMAIN message_ids[webhook_id]
            THEN LET old_message_id == message_ids[webhook_id][session_id] IN
                 \E o \in PatchOutcomes :
                    /\ sent' = Append(sent, Req("MarkEnded", session_id, webhook_id,
                                   old_message_id, old_message_id,
                                   EndedEmbedSource(session_id)))
                    /\ Allowed(o)
                    /\ outcome' = o
                    /\ orphans' = Dropped(session_id, webhook_id, o)
                    /\ message_ids' = [message_ids EXCEPT ![webhook_id] = Pop(@, session_id)]
                    /\ wi' = wi + 1
                    /\ UNCHANGED <<pc, ret>>
            ELSE /\ wi' = wi + 1
                 /\ outcome' = "none"
                 /\ UNCHANGED <<message_ids, orphans, sent, pc, ret>>
    /\ UNCHANGED <<active_sessions, player_counts, last_known_states, last_api_responses>>
    /\ UNCHANGED <<api_response, keys, ek, si, ni>>
    /\ failures' = Counted(outcome')
    /\ stale' = Kept(stale)
    /\ ended' = Kept(ended)
    /\ patch_failed' = Kept(patch_failed)
    /\ created' = Kept(created)
    /\ UNCHANGED tagged
    /\ handled' = IF wi > Len(DISCORD_WEBHOOKS) /\ failures = pre.failures
                  THEN handled \cup {Sessions[si].ID}
                  ELSE handled
    /\ UNCHANGED <<focus, reached, pre, aborted, create_failed, notfound, fresh, polls>>
    /\ UNCHANGED pure

(* config.py lines 20-29: WebhookConfig.notification_tag of each webhook *)
notification_tag(webhook_id) ==
    IF webhook_id = "STRATCORD" THEN "<@&1119505038058991667>" ELSE ""

(* line 468 *)
no_ping_ids == {"steam_id", "add_other_steam_ids_here"}

(* lines 430-449, new_session_count = 1 *)
host_is_monitored(session) ==
    IF Len(session.Players) = 0 THEN FALSE
    ELSE LET host_player == session.Players[1] IN
         IF host_player.Steam # "" /\ host_player.Steam \in MONITORED_STEAM_IDS THEN TRUE
         ELSE IF host_player.Gog # "" /\ host_player.Gog \in MONITORED_STEAM_IDS THEN TRUE
         ELSE host_player.Name \in MONITORED_STEAM_IDS

(* line 464 without its second conjunct: the tag whenever the host is on the
   roster *)
notification_suffix_on_every_create(session, webhook_id) ==
    IF host_is_monitored(session)
    THEN IF session.Players[1].Steam # "" /\ session.Players[1].Steam \in no_ping_ids
         THEN ""
         ELSE notification_tag(webhook_id)
    ELSE ""

(* lines 463-470 *)
notification_suffix(session, webhook_id) ==
    IF host_is_monitored(session) /\ ~Has(active_sessions, session.ID)
    THEN IF session.Players[1].Steam # "" /\ session.Players[1].Steam \in no_ping_ids
         THEN ""
         ELSE notification_tag(webhook_id)
    ELSE ""

(* lines 472-476: the request of line 486 with the content of line 474 *)
CreateReq(session, webhook_id, mid, held) ==
    [Req("Create", session.ID, webhook_id, mid, held, session)
        EXCEPT !.tag = notification_suffix(session, webhook_id)]

(* lines 416-498: one webhook of the loop of send_discord_notification, or,
   after the last webhook, the return to the call site *)
SendDiscordNotification ==
    /\ pc = "notify"
    /\ LET session == Sessions[si]
           session_id == session.ID
       IN
       IF ni > Len(DISCORD_WEBHOOKS)
       THEN /\ ni' = 1
            /\ ret' = "none"
            /\ outcome' = "none"
            /\ UNCHANGED <<message_ids, orphans, create_failed>>
            /\ CASE ret = "new" ->
                      /\ RecordSession(session)
                      /\ pc' = "session_loop"
                      /\ si' = si + 1
                      /\ UNCHANGED <<wi, sent>>
                 [] ret = "restart" ->
                      /\ pc' = "update"
                      /\ sent' = sent \o PlayerCountPosts(session)
                      /\ UNCHANGED <<active_sessions, player_counts, last_known_states,
                                     last_api_responses, si, wi>>
                 [] OTHER ->
                      /\ pc' = "update"
                      /\ wi' = wi + 1
                      /\ UNCHANGED <<active_sessions, player_counts, last_known_states,
                                     last_api_responses, si, sent>>
       ELSE LET webhook_id == DISCORD_WEBHOOKS[ni]
                held == Get(message_ids[webhook_id], session_id, 0)
            IN
            /\ ni' = ni + 1
            /\ UNCHANGED <<active_sessions, player_counts, last_known_states,
                           last_api_responses, pc, si, wi, ret>>
            /\ IF is_new \/ session_id \notin DOMAIN message_ids[webhook_id]
               THEN \E o \in PostOutcomes :
                       /\ Allowed(o)
                       /\ outcome' = o
                       /\ IF o = "ok"
                          THEN LET id == NewId(session_id, webhook_id) IN
                               /\ orphans' = IF held = 0 THEN orphans
                                             ELSE Orphaned(session_id, webhook_id)
                               /\ message_ids' = [message_ids EXCEPT
                                                    ![webhook_id] = Put(@, session_id, id)]
                               /\ sent' = Append(sent, CreateReq(session, webhook_id,
                                                                  id, held))
                               /\ create_failed' = create_failed \ {<<session_id, webhook_id>>}
                          ELSE /\ sent' = Append(sent, CreateReq(session, webhook_id,
                                                                  0, held))
                               /\ create_failed' =
                                    IF held = 0
                                    THEN create_failed \cup {<<session_id, webhook_id>>}
                                    ELSE create_failed
                               /\ UNCHANGED <<message_ids, orphans>>
               ELSE /\ outcome' = "none"
                    /\ UNCHANGED <<message_ids, orphans, sent, create_failed>>
    /\ UNCHANGED <<api_response, keys, ek>>
    /\ failures' = Counted(outcome')
    /\ stale' = Kept(stale)
    /\ ended' = Kept(ended)
    /\ patch_failed' = Kept(patch_failed)
    /\ created' = IF outcome' = "ok"
                  THEN created \cup {<<Sessions[si].ID, DISCORD_WEBHOOKS[ni]>>}
                  ELSE created
    /\ tagged' = IF Len(sent') > Len(sent) /\ sent'[Len(sent')].tag # ""
                 THEN [tagged EXCEPT ![<<Sessions[si].ID, DISCORD_WEBHOOKS[ni]>>] =
                                        IF @ < 2 THEN @ + 1 ELSE @]
                 ELSE tagged
    /\ handled' = IF ni > Len(DISCORD_WEBHOOKS) /\ ret = "new"
                  THEN handled \ {Sessions[si].ID}
                  ELSE handled
    /\ UNCHANGED <<focus, reached, pre, aborted, notfound, fresh, polls>>
    /\ UNCHANGED pure

(* lines 650-671: one webhook of the update loop, or, after the last webhook,
   the record update.  The PATCH of line 659 is in no try block but the one
   of line 560: when it raises, the cycle ends in the handler of line 673. *)
UpdateEmbed ==
    /\ pc = "update"
    /\ LET session == Sessions[si]
           session_id == session.ID
       IN
       IF wi > Len(DISCORD_WEBHOOKS)
       THEN /\ RecordSession(session)
            /\ pc' = "session_loop"
            /\ si' = si + 1
            /\ wi' = 1
            /\ outcome' = "none"
            /\ UNCHANGED <<message_ids, ret, orphans, sent, aborted, notfound>>
       ELSE LET webhook_id == DISCORD_WEBHOOKS[wi] IN
            /\ UNCHANGED <<active_sessions, player_counts, last_known_states,
                           last_api_responses, si>>
            /\ IF session_id \in DOMAIN message_ids[webhook_id]
               THEN LET message_id == message_ids[webhook_id][session_id] IN
                    \E o \in PatchOutcomes :
                       /\ sent' = Append(sent, Req("Patch", session_id, webhook_id,
                                                    message_id, message_id, session))
                       /\ Allowed(o)
                       /\ outcome' = o
                       /\ UNCHANGED orphans
                       /\ CASE o = "exc" ->
                                 /\ pc' = "done"
                                 /\ aborted' = TRUE
                                 /\ UNCHANGED <<message_ids, wi, ret, notfound>>
                            [] o = "404" ->
                                 /\ message_ids' = [message_ids EXCEPT
                                                      ![webhook_id] = Pop(@, session_id)]
                                 /\ pc' = "notify"
                                 /\ ret' = "heal"
                                 /\ notfound' = notfound \cup {<<session_id, webhook_id>>}
                                 /\ UNCHANGED <<wi, aborted>>
                            [] OTHER ->
                                 /\ wi' = wi + 1
                                 /\ UNCHANGED <<message_ids, pc, ret, aborted, notfound>>
               ELSE /\ wi' = wi + 1
                    /\ outcome' = "none"
                    /\ UNCHANGED <<message_ids, pc, ret, orphans, sent, aborted, notfound>>
    /\ UNCHANGED <<api_response, keys, ek, ni>>
    /\ failures' = Counted(outcome')
    /\ stale' = Kept(stale)
    /\ ended' = Kept(ended)
    /\ patch_failed' =
          CASE outcome' \in {"fail", "exc"} ->
                  patch_failed \cup {<<Sessions[si].ID, DISCORD_WEBHOOKS[wi]>>}
            [] outcome' = "ok" ->
                  patch_failed \ {<<Sessions[si].ID, DISCORD_WEBHOOKS[wi]>>}
            [] OTHER -> Kept(patch_failed)
    /\ created' = Kept(created)
    /\ UNCHANGED tagged
    /\ handled' = IF wi > Len(DISCORD_WEBHOOKS) THEN handled \ {Sessions[si].ID} ELSE handled
    /\ UNCHANGED <<focus, reached, pre, create_failed, fresh, polls>>
    /\ UNCHANGED pure

(***************************************************************************)
(* BZBot.run                                                               *)
(***************************************************************************)

FreshIds == {Sessions[i].ID : i \in {j \in 1..Len(Sessions) :
                 /\ Has(active_sessions, Sessions[j].ID)
                 /\ GetS(active_sessions, Sessions[j].ID) = Sessions[j]}}

(* line 689: check_sessions has returned; sleep until the next cycle *)
Sleep ==
    /\ pc = "done"
    /\ pc' = "idle"
    /\ api_response' = None
    /\ keys' = <<>>
    /\ ek' = 1 /\ si' = 1 /\ wi' = 1 /\ ni' = 1
    /\ ret' = "none"
    /\ sent' = <<>>
    /\ outcome' = "none"
    /\ focus' = "none"
    /\ reached' = {}
    /\ pre' = NoPre
    /\ aborted' = FALSE
    /\ notfound' = {}
    /\ fresh' = IF api_response.ok THEN FreshIds ELSE fresh
    /\ UNCHANGED <<bot, orphans, create_failed, polls, failures, memo>>
    /\ UNCHANGED pure

Next ==
    \/ CheckSessionsBegin
    \/ EndedLoop
    \/ MarkSessionEnded
    \/ SessionLoop
    \/ RestartEnd
    \/ SendDiscordNotification
    \/ UpdateEmbed
    \/ Sleep

Spec == Init /\ [][Next]_vars

(***************************************************************************)
(* Shutdown (BZBot.run, lines 690-702)                                     *)
(***************************************************************************)

(* the running cycle is suspended in a request: the PATCH of line 826, 615 or
   659, or the POST of line 486 *)
InRequest ==
    \/ /\ pc = "mark_ended"
       /\ wi <= Len(DISCORD_WEBHOOKS)
       /\ HasMessage(DISCORD_WEBHOOKS[wi], keys[ek])
    \/ /\ pc \in {"restart", "update"}
       /\ wi <= Len(DISCORD_WEBHOOKS)
       /\ Sessions[si].ID \in DOMAIN message_ids[DISCORD_WEBHOOKS[wi]]
    \/ /\ pc = "notify"
       /\ ni <= Len(DISCORD_WEBHOOKS)

(* The task is cancelled: asyncio raises CancelledError at the await the task
   is suspended in.  CancelledError is a BaseException, so no "except
   Exception" of check_sessions (lines 494, 497, 619, 673) catches it: it
   leaves check_sessions at that await and reaches line 690, where the loop
   breaks and the bot closes.  Nothing after the await is executed. *)
Cancel ==
    /\ \/ pc \in {"idle", "done"}
       \/ InRequest
    /\ pc' = "stopped"
    /\ outcome' = IF InRequest THEN "cancelled" ELSE "none"
    /\ UNCHANGED <<bot, api_response, keys, ek, si, wi, ni, ret, memo>>
    /\ UNCHANGED pure
    /\ UNCHANGED <<orphans, sent, focus, reached, pre, aborted, create_failed,
                   notfound, fresh, polls, failures>>

ShutdownNext ==
    \/ Next
    \/ Cancel

ShutdownSpec == Init /\ [][ShutdownNext]_vars

(***************************************************************************)
(* The run loop without an end                                             *)
(***************************************************************************)

(* lines 686-689: "while self.is_running" goes on for as long as the process
   lives; polls stops counting at MaxPolls ("MaxPolls or more") *)
KeepPolling ==
    /\ polls' = IF polls < MaxPolls THEN polls + 1 ELSE polls
    /\ FetchApiData

LiveNext ==
    \/ KeepPolling
    \/ EndedLoop
    \/ MarkSessionEnded
    \/ SessionLoop
    \/ RestartEnd
    \/ SendDiscordNotification
    \/ UpdateEmbed
    \/ Sleep

(* the event loop runs the one task of the bot whenever it can take a step:
   a request ends (aiohttp's timeout), the sleep of line 689 ends *)
LiveSpec == Init /\ [][LiveNext]_vars /\ WF_vars(LiveNext)

(***************************************************************************)
(* The joined/left summary (check_sessions, lines 633-648)                 *)
(***************************************************************************)

(* the names the players of the model can have, in lexicographic order *)
Names == <<"Ann", "Bob", "Cyd", "Dee">>

NameSet == {Names[i] : i \in DOMAIN Names}

Rank(name) == CHOOSE i \in DOMAIN Names : Names[i] = name

(* min() of a non-empty set of str *)
Smallest(S) == CHOOSE n \in S : \A m \in S : Rank(n) <= Rank(m)

(* next(iter(S)) for a set of str: the element the iteration meets first.
   The order follows the hashes of the strings, which are salted anew in
   every process, so any element of S can be the first. *)
FirstInIteration(S) == S

(* lines 633-648: the rosters of the record and of the snapshot give the
   name the count message reports *)
ReportChange ==
    /\ message = <<>>
    /\ LET current_players == Cardinality(current_players_list)
           previous_count == Cardinality(previous_players_list)
       IN
       /\ current_players # previous_count
       /\ IF current_players > previous_count
          THEN LET joined_players == current_players_list \ previous_players_list IN
               \E player_name \in (IF joined_players # {}
                                    THEN FirstInIteration(joined_players)
                                    ELSE {"Unknown"}) :
                   message' = <<player_name, "joined">>
          ELSE LET left_players == previous_players_list \ current_players_list IN
               \E player_name \in (IF left_players # {}
                                    THEN FirstInIteration(left_players)
                                    ELSE {"Unknown"}) :
                   message' = <<player_name, "left">>
    /\ UNCHANGED <<previous_players_list, current_players_list,
                   raw_configs, valid_configs, directories>>
    /\ UNCHANGED <<bot, frame, ghost, memo, supervisor>>

RosterInit ==
    /\ BotInit
    /\ previous_players_list \in SUBSET NameSet
    /\ current_players_list \in SUBSET NameSet
    /\ message = <<>>
    /\ raw_configs = <<>>
    /\ valid_configs = <<>>
    /\ directories = {}
    /\ SupervisorInit

RosterNext == ReportChange

RosterSpec == RosterInit /\ [][RosterNext]_vars

(***************************************************************************)
(* Webhook configuration (config.py, lines 15-62; main.py, line 74)        *)
(***************************************************************************)

HttpPrefix == <<"h", "t", "t", "p", ":", "/", "/">>

HttpsPrefix == <<"h", "t", "t", "p", "s", ":", "/", "/">>

(* os.getenv returned None: the variable is not set *)
NoUrl == <<"None">>

(* the values a webhook URL variable can have, character by character *)
Urls ==
    { NoUrl,
      <<>>,
      HttpPrefix,
      HttpPrefix \o <<"x">>,
      HttpsPrefix \o <<"x">>,
      <<"h", "t", "t", "p">>,
      <<"f", "t", "p", ":", "/", "/", "x">>,
      <<"H", "T", "T", "P", ":", "/", "/", "x">>,
      <<" ">> \o HttpsPrefix \o <<"x">> }

(* str.startswith *)
startswith(url, prefix) ==
    /\ Len(url) >= Len(prefix)
    /\ SubSeq(url, 1, Len(prefix)) = prefix

(* line 52 with 'http://' left out of the tuple *)
passes_https_only(url) ==
    /\ url # NoUrl /\ url # <<>>
    /\ startswith(url, HttpsPrefix)

(* lines 47-54: the three tests a URL passes to be kept (os.getenv gives a
   str or None, so the isinstance test of line 49 rejects nothing more) *)
passes(url) ==
    /\ url # NoUrl /\ url # <<>>
    /\ startswith(url, HttpPrefix) \/ startswith(url, HttpsPrefix)

KeepValid(webhook_id) == passes(raw_configs[webhook_id])

(* lines 45-62, in the order of raw_configs *)
validate_webhook_configs == SelectSeq(DISCORD_WEBHOOKS, KeepValid)

Unset == <<"unset">>

(* config.py line 67: DISCORD_WEBHOOKS = validate_webhook_configs() *)
LoadConfig ==
    /\ valid_configs = Unset
    /\ valid_configs' = validate_webhook_configs
    /\ UNCHANGED <<previous_players_list, current_players_list, message,
                   raw_configs, directories>>
    /\ UNCHANGED <<bot, frame, ghost, memo, supervisor>>

(* main.py line 74: self.message_ids = {webhook_id: {} for webhook_id in
   config.DISCORD_WEBHOOKS} *)
MakeDirectories ==
    /\ valid_configs # Unset
    /\ directories = {"unset"}
    /\ directories' = {valid_configs[i] : i \in 1..Len(valid_configs)}
    /\ UNCHANGED <<previous_players_list, current_players_list, message,
                   raw_configs, valid_configs>>
    /\ UNCHANGED <<bot, frame, ghost, memo, supervisor>>

ConfigInit ==
    /\ BotInit
    /\ previous_players_list = {}
    /\ current_players_list = {}
    /\ message = <<>>
    /\ raw_configs \in [WebhookSet -> Urls]
    /\ valid_configs = Unset
    /\ directories = {"unset"}
    /\ SupervisorInit

ConfigNext ==
    \/ LoadConfig
    \/ MakeDirectories

ConfigSpec == ConfigInit /\ [][ConfigNext]_vars

(***************************************************************************)
(* The development supervisor (run.py)                                     *)
(***************************************************************************)

MaxEvents == 3

MaxTime == 4

(* run.py line 44: time.sleep(1) *)
ReloadPause == 1

(* the events watchdog reports for the directory: a modified .py file, or
   anything else (lines 22 and 25) *)
EventKinds == {"py_modified", "other"}

(* subprocess.Popen([sys.executable, 'main.py']): one more child runs *)
Popen == spawned + 1

(* the observer thread dispatches events from observer.start() (line 51) to
   observer.stop() (line 59) *)
Observing == main_pc \in {"popen", "store", "loop"}

Bot == <<bot, frame, ghost, memo, previous_players_list, current_players_list,
         message, raw_configs, valid_configs, directories>>

(* lines 48-51 *)
ObserverStart ==
    /\ main_pc = "start"
    /\ main_pc' = "popen"
    /\ UNCHANGED <<process, reloading, last_reload, now, alive, spawned, events,
                   main_child, obs_pc, obs_child>>
    /\ UNCHANGED Bot

(* line 53, right-hand side *)
MainPopen ==
    /\ main_pc = "popen"
    /\ main_child' = Popen
    /\ alive' = alive \cup {Popen}
    /\ spawned' = spawned + 1
    /\ main_pc' = "store"
    /\ UNCHANGED <<process, reloading, last_reload, now, events, obs_pc, obs_child>>
    /\ UNCHANGED Bot

(* line 53, the assignment to handler.process *)
MainStore ==
    /\ main_pc = "store"
    /\ process' = main_child
    /\ main_pc' = "loop"
    /\ UNCHANGED <<reloading, last_reload, now, alive, spawned, events,
                   main_child, obs_pc, obs_child>>
    /\ UNCHANGED Bot

(* lines 56-60: KeyboardInterrupt in the loop, observer.stop(), and the test
   of handler.process *)
KeyboardInterrupt ==
    /\ main_pc = "loop"
    /\ main_pc' = IF process # 0 THEN "kill" ELSE "join"
    /\ UNCHANGED <<process, reloading, last_reload, now, alive, spawned, events,
                   main_child, obs_pc, obs_child>>
    /\ UNCHANGED Bot

(* line 61 *)
MainKill ==
    /\ main_pc = "kill"
    /\ alive' = alive \ {process}
    /\ main_pc' = "wait"
    /\ UNCHANGED <<process, reloading, last_reload, now, spawned, events,
                   main_child, obs_pc, obs_child>>
    /\ UNCHANGED Bot

(* line 62: wait() returns when the child handler.process refers to is dead *)
MainWait ==
    /\ main_pc = "wait"
    /\ process \notin alive
    /\ main_pc' = "join"
    /\ UNCHANGED <<process, reloading, last_reload, now, alive, spawned, events,
                   main_child, obs_pc, obs_child>>
    /\ UNCHANGED Bot

(* line 63: observer.join() returns when the observer thread has ended *)
MainJoin ==
    /\ main_pc = "join"
    /\ obs_pc = "idle"
    /\ main_pc' = "exited"
    /\ UNCHANGED <<process, reloading, last_reload, now, alive, spawned, events,
                   main_child, obs_pc, obs_child>>
    /\ UNCHANGED Bot

(* lines 21-37: the observer thread calls on_modified for the next event *)
OnModified ==
    /\ obs_pc = "idle"
    /\ Observing
    /\ events < MaxEvents
    /\ events' = events + 1
    /\ \E event \in EventKinds :
          LET current_time == now IN
          IF event # "py_modified" THEN UNCHANGED <<reloading, last_reload, obs_pc>>
          ELSE IF reloading THEN UNCHANGED <<reloading, last_reload, obs_pc>>
          ELSE IF current_time - last_reload < Debounce
          THEN UNCHANGED <<reloading, last_reload, obs_pc>>
          ELSE /\ reloading' = TRUE
               /\ last_reload' = current_time
               /\ obs_pc' = "check"
    /\ UNCHANGED <<process, now, alive, spawned, main_pc, main_child, obs_child>>
    /\ UNCHANGED Bot

(* line 39 *)
ReloadCheck ==
    /\ obs_pc = "check"
    /\ obs_pc' = IF process # 0 THEN "kill" ELSE "popen"
    /\ UNCHANGED <<process, reloading, last_reload, now, alive, spawned, events,
                   main_pc, main_child, obs_child>>
    /\ UNCHANGED Bot

(* line 40 *)
ReloadKill ==
    /\ obs_pc = "kill"
    /\ alive' = alive \ {process}
    /\ obs_pc' = "wait"
    /\ UNCHANGED <<process, reloading, last_reload, now, spawned, events,
                   main_pc, main_child, obs_child>>
    /\ UNCHANGED Bot

(* line 41 *)
ReloadWait ==
    /\ obs_pc = "wait"
    /\ process \notin alive
    /\ obs_pc' = "popen"
    /\ UNCHANGED <<process, reloading, last_reload, now, alive, spawned, events,
                   main_pc, main_child, obs_child>>
    /\ UNCHANGED Bot

(* line 43, right-hand side *)
ReloadPopen ==
    /\ obs_pc = "popen"
    /\ obs_child' = Popen
    /\ alive' = alive \cup {Popen}
    /\ spawned' = spawned + 1
    /\ obs_pc' = "store"
    /\ UNCHANGED <<process, reloading, last_reload, now, events, main_pc, main_child>>
    /\ UNCHANGED Bot

(* line 43, the assignment to self.process *)
ReloadStore ==
    /\ obs_pc = "store"
    /\ process' = obs_child
    /\ obs_pc' = "sleep"
    /\ UNCHANGED <<reloading, last_reload, now, alive, spawned, events,
                   main_pc, main_child, obs_child>>
    /\ UNCHANGED Bot

(* lines 44-45 *)
ReloadSleep ==
    /\ obs_pc = "sleep"
    /\ now' = IF now + ReloadPause <= MaxTime THEN now + ReloadPause ELSE MaxTime
    /\ reloading' = FALSE
    /\ obs_pc' = "idle"
    /\ UNCHANGED <<process, last_reload, alive, spawned, events,
                   main_pc, main_child, obs_child>>
    /\ UNCHANGED Bot

(* a second passes *)
Tick ==
    /\ now < MaxTime
    /\ main_pc # "exited"
    /\ now' = now + 1
    /\ UNCHANGED <<process, reloading, last_reload, alive, spawned, events,
                   main_pc, main_child, obs_pc, obs_child>>
    /\ UNCHANGED Bot

SupervisorNext ==
    \/ ObserverStart
    \/ MainPopen
    \/ MainStore
    \/ KeyboardInterrupt
    \/ MainKill
    \/ MainWait
    \/ MainJoin
    \/ OnModified
    \/ ReloadCheck
    \/ ReloadKill
    \/ ReloadWait
    \/ ReloadPopen
    \/ ReloadStore
    \/ ReloadSleep
    \/ Tick

SupervisorSpec == Init /\ [][SupervisorNext]_vars

(***************************************************************************)
(* Vocabulary of the properties                                            *)
(***************************************************************************)

(* the cycle fetched a snapshot *)
Fetched == pc # "idle" /\ api_response.ok

InSnapshot(sid) == \E i \in 1..Len(Sessions) : Sessions[i].ID = sid

Entry(sid) == Sessions[CHOOSE i \in 1..Len(Sessions) : Sessions[i].ID = sid]

TrackedBefore(sid) == Has(pre.active_sessions, sid)

HeldBefore(sid, wh) == sid \in DOMAIN pre.message_ids[wh]

(* sid was tracked when the cycle began and is absent from its snapshot *)
Vanished(sid) == Fetched /\ TrackedBefore(sid) /\ ~InSnapshot(sid)

(* sid is in the snapshot of the cycle and passes the filter *)
Relevant(sid) == Fetched /\ InSnapshot(sid) /\ has_monitored_player(Entry(sid))

(* the requests of the running cycle for sid are known in this state: sent
   holds them while sid is in focus, and there are none for a session the
   cycle has not begun to handle *)
Known(sid) == sid = focus \/ sid \notin reached

SentFor(sid) == IF sid = focus THEN sent ELSE <<>>

(* the cycle will send nothing more for sid *)
Over(sid) == pc = "done" \/ (sid = focus /\ pc \in {"ended_loop", "session_loop"})

Indices(sid, kind, wh) ==
    {i \in 1..Len(SentFor(sid)) : /\ SentFor(sid)[i].kind = kind
                                  /\ SentFor(sid)[i].sid = sid
                                  /\ SentFor(sid)[i].wh = wh}

NumSent(sid, kind, wh) == Cardinality(Indices(sid, kind, wh))

Delivery == {"Create", "Patch", "MarkEnded"}

(* the cycle ran to the end of check_sessions without the handler of line 673 *)
Completed == pc = "done" /\ Fetched /\ ~aborted

(***************************************************************************)
(* Claims                                                                  *)
(***************************************************************************)

(* live messages of a slot: the one the directory names, and the orphans *)
LiveMessages(sid, wh) ==
    orphans[<<sid, wh>>] + (IF sid \in DOMAIN message_ids[wh] THEN 1 ELSE 0)

(* C1: for every (session, destination) pair at most one message created for
   the pair is live (neither marked ended nor reported not-found), and no
   Create is sent to a destination whose directory entry holds an identifier
   for the session. *)
C1_AtMostOneLiveMessage ==
    /\ \A sid \in SessionIds, wh \in WebhookSet : LiveMessages(sid, wh) <= 1
    /\ \A i \in 1..Len(sent) : sent[i].kind = "Create" => sent[i].held = 0

(* C2: once the Patch for (A, D) was answered 404, the Creates that follow
   for A go to D only: a destination that holds an identifier for A (and
   whose own Patch was not answered 404) gets no Create. *)
C2_NotFoundCreatesForThatDestinationOnly ==
    \A i \in 1..Len(sent), j \in 1..Len(sent) :
        ( /\ i < j
          /\ sent[i].kind = "Patch"
          /\ <<sent[i].sid, sent[i].wh>> \in notfound
          /\ sent[j].kind = "Create"
          /\ sent[j].sid = sent[i].sid )
        => (<<sent[j].sid, sent[j].wh>> \in notfound \/ sent[j].held = 0)

(* C3: a slot of a tracked session left empty by a failed Create is sent a
   Create in the next cycle in which the session is relevant, also when
   other destinations hold an identifier (stated for cycles that no
   exception cut short). *)
C3_FailedCreateRetriedNextPoll ==
    \A sid \in SessionIds, wh \in WebhookSet :
        ( /\ Completed
          /\ <<sid, wh>> \in pre.create_failed
          /\ TrackedBefore(sid)
          /\ Relevant(sid)
          /\ Known(sid) )
        => NumSent(sid, "Create", wh) >= 1

(* the content of sid in the snapshot is the content of its record *)
Unchanged(sid) ==
    /\ Fetched
    /\ TrackedBefore(sid)
    /\ InSnapshot(sid)
    /\ Entry(sid) = GetS(pre.active_sessions, sid)

(* C4 as stated: for a tracked session that is in two consecutive fetched
   snapshots with identical content, the second cycle sends no Create, Patch
   or MarkEnded. *)
C4_UnchangedSessionSendsNothing ==
    \A sid \in SessionIds :
        (sid \in fresh /\ Unchanged(sid))
        => \A i \in 1..Len(SentFor(sid)) : SentFor(sid)[i].kind \notin Delivery

(* C4 amended: for a tracked session whose snapshot entry is identical to the
   content of its record, the cycle sends no MarkEnded and no player-count
   post; its Patches go to the identifier the directory holds, and a Create
   is sent only when no destination held an identifier for the session when
   the cycle began or after a Patch for it was answered 404. *)
C4_UnchangedSessionOnlyPatched ==
    \A sid \in SessionIds :
        Unchanged(sid)
        => \A i \in 1..Len(SentFor(sid)) :
              LET r == SentFor(sid)[i] IN
              /\ r.kind \in {"Patch", "Create"}
              /\ r.kind = "Patch" => (r.mid = r.held /\ r.mid # 0)
              /\ r.kind = "Create" =>
                    \/ \A wh \in WebhookSet : ~HeldBefore(sid, wh)
                    \/ \E wh \in WebhookSet : <<sid, wh>> \in notfound

(* witness of C4: an unchanged session, seen in the previous snapshot, has
   been handled to the end and was sent a Patch *)
C4_Witness ==
    \E sid \in SessionIds :
        /\ sid \in fresh
        /\ Unchanged(sid)
        /\ sid = focus
        /\ pc = "session_loop"
        /\ \E wh \in WebhookSet : NumSent(sid, "Patch", wh) = 1

(* C5: a session that is relevant in the cycle and had no record when it
   began is sent exactly one Create per destination and no Patch or
   MarkEnded in that cycle. *)
C5_NewSessionOneCreatePerDestination ==
    \A sid \in SessionIds :
        (Over(sid) /\ Known(sid) /\ Relevant(sid) /\ ~TrackedBefore(sid))
        => \A wh \in WebhookSet :
              /\ NumSent(sid, "Create", wh) = 1
              /\ NumSent(sid, "Patch", wh) = 0
              /\ NumSent(sid, "MarkEnded", wh) = 0

(* C6: a tracked session absent from the fetched snapshot is sent exactly one
   MarkEnded per destination that holds an identifier for it, and nothing at
   the other destinations. *)
C6_VanishedSessionOneMarkEndedPerHolder ==
    \A sid \in SessionIds :
        (Over(sid) /\ Known(sid) /\ Vanished(sid))
        => \A wh \in WebhookSet :
              /\ NumSent(sid, "MarkEnded", wh) = (IF HeldBefore(sid, wh) THEN 1 ELSE 0)
              /\ NumSent(sid, "Create", wh) = 0
              /\ NumSent(sid, "Patch", wh) = 0

(* C7: the record of a tracked session absent from the fetched snapshot is
   gone by the end of the cycle, whatever the MarkEnded deliveries did. *)
C7_VanishedSessionRecordRemoved ==
    \A sid \in SessionIds :
        (pc = "done" /\ Vanished(sid))
        => /\ ~Has(active_sessions, sid)
           /\ sid \notin DOMAIN player_counts
           /\ sid \notin DOMAIN last_known_states

(* C8: a tracked session that is in the snapshot but no longer relevant is
   handled like a vanished one: a MarkEnded for every destination holding an
   identifier, and its record removed in that cycle (stated for cycles that
   no exception cut short). *)
C8_IrrelevantSessionEnded ==
    \A sid \in SessionIds :
        ( /\ Completed
          /\ TrackedBefore(sid)
          /\ InSnapshot(sid)
          /\ ~has_monitored_player(Entry(sid))
          /\ Known(sid) )
        => /\ ~Has(active_sessions, sid)
           /\ \A wh \in WebhookSet :
                 HeldBefore(sid, wh) => NumSent(sid, "MarkEnded", wh) >= 1

(* the cycle handles sid as a game restarted inside the session *)
Restarted(sid) ==
    /\ Relevant(sid)
    /\ TrackedBefore(sid)
    /\ Get(pre.last_known_states, sid, "None") = "InGame"
    /\ Entry(sid).State = "PreGame"

(* C9 as stated: when the state went from InGame to PreGame, each destination
   holding an identifier is sent a MarkEnded for the old message and then a
   Create, and no Patch is sent for the session in that cycle. *)
C9_RestartMarkEndedThenCreateNoPatch ==
    \A sid \in SessionIds :
        (sid = focus /\ Restarted(sid))
        => \A wh \in WebhookSet :
              /\ NumSent(sid, "Patch", wh) = 0
              /\ HeldBefore(sid, wh) =>
                    /\ \A j \in Indices(sid, "Create", wh) :
                          \E i \in Indices(sid, "MarkEnded", wh) : i < j
                    /\ Over(sid) => /\ NumSent(sid, "MarkEnded", wh) >= 1
                                    /\ NumSent(sid, "Create", wh) >= 1

(* C9 amended: when the state went from InGame to PreGame, each destination
   holding an identifier is sent one MarkEnded for the old message and, after
   it, a Create; a Patch of that cycle never goes to the old identifier, only
   to an identifier a Create of the same cycle returned. *)
C9_RestartMarkEndedThenCreate ==
    \A sid \in SessionIds :
        (sid = focus /\ Restarted(sid))
        => \A wh \in WebhookSet :
              HeldBefore(sid, wh) =>
                 LET old == pre.message_ids[wh][sid] IN
                 /\ NumSent(sid, "MarkEnded", wh) <= 1
                 /\ \A i \in Indices(sid, "MarkEnded", wh) : sent[i].mid = old
                 /\ \A j \in Indices(sid, "Create", wh) :
                       \E i \in Indices(sid, "MarkEnded", wh) : i < j
                 /\ \A k \in Indices(sid, "Patch", wh) :
                       /\ sent[k].mid # old
                       /\ \E j \in Indices(sid, "Create", wh) : j < k
                 /\ Over(sid) => /\ NumSent(sid, "MarkEnded", wh) = 1
                                 /\ NumSent(sid, "Create", wh) >= 1

(* witness of C9: a restarted session has been handled to the end; a
   destination that held an identifier got MarkEnded, Create and a Patch *)
C9_Witness ==
    \E sid \in SessionIds, wh \in WebhookSet :
        /\ sid = focus
        /\ Restarted(sid)
        /\ HeldBefore(sid, wh)
        /\ pc = "session_loop"
        /\ NumSent(sid, "MarkEnded", wh) = 1
        /\ NumSent(sid, "Create", wh) = 1
        /\ NumSent(sid, "Patch", wh) = 1

(* a delivery of the running cycle did not succeed *)
DeliveryFailed == failures > pre.failures

(* C10: a failed delivery does not keep the cycle from attempting the other
   deliveries that are due: a MarkEnded for every identifier of a vanished
   session, a Create per destination for a new relevant session, and a
   request to every destination holding an identifier of a tracked relevant
   session. *)
C10_FailureDoesNotStopOtherDeliveries ==
    (pc = "done" /\ Fetched /\ DeliveryFailed)
    => \A sid \in SessionIds : \A wh \in WebhookSet :
          Known(sid) =>
             /\ (Vanished(sid) /\ HeldBefore(sid, wh))
                   => NumSent(sid, "MarkEnded", wh) >= 1
             /\ (Relevant(sid) /\ ~TrackedBefore(sid))
                   => NumSent(sid, "Create", wh) >= 1
             /\ (Relevant(sid) /\ TrackedBefore(sid) /\ HeldBefore(sid, wh))
                   => \E k \in Delivery : NumSent(sid, k, wh) >= 1

(* the last request sent, when the step sent one *)
Sends(kind, sid, wh, mid) ==
    /\ sent' # sent
    /\ Len(sent') > 0
    /\ LET r == sent'[Len(sent')] IN
       r.kind = kind /\ r.sid = sid /\ r.wh = wh /\ r.mid = mid

(* the step takes the identifier the directory holds for (sid, wh) out of
   it: removes the entry or stores another identifier *)
Forgets(sid, wh) ==
    /\ sid \in DOMAIN message_ids[wh]
    /\ \/ sid \notin DOMAIN message_ids'[wh]
       \/ message_ids'[wh][sid] # message_ids[wh][sid]

(* C11: an identifier leaves the directory (is removed or overwritten) only
   in a step that sends a MarkEnded to it or in which its destination
   reports it not-found; no live message is dropped without either. *)
C11_NoIdentifierForgottenAlive ==
    [][\A sid \in SessionIds, wh \in WebhookSet :
          Forgets(sid, wh) =>
             \/ Sends("MarkEnded", sid, wh, message_ids[wh][sid])
             \/ Sends("Patch", sid, wh, message_ids[wh][sid]) /\ outcome' = "404"]_vars

(* the fetch of the running cycle failed *)
FetchFailed == pc # "idle" /\ ~api_response.ok

(* C12: a cycle whose fetch failed sends no request and leaves
   active_sessions, message_ids, player_counts and last_known_states as they
   were when it began. *)
C12_FailedFetchChangesNothing ==
    FetchFailed =>
       /\ sent = <<>>
       /\ focus = "none"
       /\ active_sessions = pre.active_sessions
       /\ message_ids = pre.message_ids
       /\ player_counts = pre.player_counts
       /\ last_known_states = pre.last_known_states

(* witness of C12: the fetch failed in a later cycle, while a session is
   tracked and a destination holds an identifier for it, and the cycle has
   returned *)
C12_Witness ==
    /\ FetchFailed
    /\ pc = "done"
    /\ polls > 1
    /\ \E sid \in SessionIds, wh \in WebhookSet :
          Has(active_sessions, sid) /\ sid \in DOMAIN message_ids[wh]

(* C15: after a cycle whose fetch succeeded, the record of every relevant
   session of the snapshot holds that snapshot's entry, player count and
   state, whatever the deliveries of the cycle did. *)
C15_RecordHoldsSnapshotAfterPoll ==
    (pc = "done" /\ Fetched)
    => \A sid \in SessionIds :
          Relevant(sid) =>
             /\ Has(active_sessions, sid)
             /\ GetS(active_sessions, sid) = Entry(sid)
             /\ Get(player_counts, sid, -1) = Entry(sid).PlayerCount
             /\ Get(last_known_states, sid, "None") = Entry(sid).State

(* C16: a step removes a record from active_sessions only when the running
   call of mark_session_ended has sent a MarkEnded to every destination that
   held an identifier for the session when the cycle began. *)
C16_RecordRemovedAfterAllMarkEnded ==
    [][\A sid \in SessionIds :
          (Has(active_sessions, sid) /\ ~Has(active_sessions', sid))
          => /\ sid = focus
             /\ \A wh \in WebhookSet :
                   HeldBefore(sid, wh) => NumSent(sid, "MarkEnded", wh) >= 1]_vars

(* witness of C16: the record of a session that two destinations held an
   identifier for has just been removed by mark_session_ended *)
C16_Witness ==
    \E sid \in SessionIds :
        /\ sid = focus
        /\ pc = "ended_loop"
        /\ TrackedBefore(sid)
        /\ ~Has(active_sessions, sid)
        /\ \A wh \in WebhookSet : HeldBefore(sid, wh) /\ NumSent(sid, "MarkEnded", wh) = 1

(* C19: a MarkEnded that fails (another status than 200/204/404, or a raised
   error) leaves the identifier in the directory.  Stated for the MarkEnded
   of the restart handling, where the session keeps its record. *)
C19_FailedMarkEndedKeepsIdentifier ==
    [][\A sid \in SessionIds, wh \in WebhookSet :
          ( /\ pc = "restart"
            /\ sid \in DOMAIN message_ids[wh]
            /\ Sends("MarkEnded", sid, wh, message_ids[wh][sid])
            /\ outcome' \in {"fail", "exc"} )
          => /\ sid \in DOMAIN message_ids'[wh]
             /\ message_ids'[wh][sid] = message_ids[wh][sid]]_vars

(* the step sends a Patch to the identifier the directory holds for (sid, wh) *)
Patches(sid, wh) ==
    /\ sid \in DOMAIN message_ids[wh]
    /\ Sends("Patch", sid, wh, message_ids[wh][sid])

(* C13: after a fetched snapshot that lacks a session, no Patch is sent to an
   identifier that was stored for it before that snapshot: when the session
   is back, its old messages have been ended and it gets fresh ones. *)
C13_NoPatchToIdentifierFromBeforeAbsence ==
    [][\A sid \in SessionIds, wh \in WebhookSet :
          Patches(sid, wh) => <<sid, wh>> \notin stale]_vars

(* C14: a restart whose end-of-life updates were all delivered is handled
   once: while the snapshot keeps the session in the lobby, no later cycle
   enters the restart handling (ended update and Create) for it again. *)
C14_RestartHandledOnce ==
    pc = "restart" => focus \notin handled

(* C17: no Patch is sent to an identifier that a MarkEnded has been sent to. *)
C17_NoPatchAfterMarkEnded ==
    [][\A sid \in SessionIds, wh \in WebhookSet :
          Patches(sid, wh) => <<sid, wh>> \notin ended]_vars

(* the snapshot before this one listed sid InGame with the content of its
   record, and this one lists it PreGame: the game went back to the lobby
   between two snapshots *)
WentBackToLobby(sid) ==
    /\ Restarted(sid)
    /\ sid \in fresh

(* C20: when the last Patch of a slot failed with a retryable failure, the
   identifier and the record are kept, and the next cycle that handles the
   session as relevant, the game not having gone back to the lobby, sends a
   Patch to the same identifier, and sends no Create to the slot unless that
   Patch is answered 404. *)
C20_FailedPatchRetriedOnSameIdentifier ==
    \A sid \in SessionIds, wh \in WebhookSet :
        ( /\ sid = focus
          /\ Over(sid)
          /\ Relevant(sid)
          /\ ~WentBackToLobby(sid)
          /\ <<sid, wh>> \in pre.patch_failed )
        => /\ \E i \in Indices(sid, "Patch", wh) : sent[i].mid = pre.message_ids[wh][sid]
           /\ NumSent(sid, "Create", wh) > 0 => <<sid, wh>> \in notfound

(* C18: an identifier stored by a successful Create is in the directory when
   the next cycle begins, and that cycle, when it handles the session as
   relevant, the game not having gone back to the lobby, sends a Patch to
   that identifier and no Create to the slot (unless the Patch is answered
   404). *)
C18_CreatedIdentifierPatchedNextPoll ==
    \A sid \in SessionIds, wh \in WebhookSet :
        ( /\ sid = focus
          /\ Over(sid)
          /\ Relevant(sid)
          /\ ~WentBackToLobby(sid)
          /\ <<sid, wh>> \in pre.created )
        => /\ HeldBefore(sid, wh)
           /\ \E i \in Indices(sid, "Patch", wh) : sent[i].mid = pre.message_ids[wh][sid]
           /\ NumSent(sid, "Create", wh) > 0 => <<sid, wh>> \in notfound

(* C21: a check_sessions cycle is started only when no cycle is in progress:
   the one before has returned (normally or through the handler of line 673)
   and the sleep is over, so the dictionaries are never used by two cycles
   at once. *)
C21_OneCycleAtATime ==
    [][polls' # polls => (pc = "idle" /\ polls' = polls + 1)]_vars

(* witness of C21: a second cycle is at work on the dictionaries after the
   first has returned *)
C21_Witness ==
    /\ polls = 2
    /\ pc \in {"mark_ended", "restart", "notify", "update"}

(* C22: when the task is cancelled while a cycle is in a request, the cycle
   still runs to its end: every relevant session of the snapshot has its
   record updated before the bot closes. *)
C22_CancelledCycleCompletes ==
    (pc = "stopped" /\ outcome = "cancelled")
    => \A sid \in SessionIds :
          Relevant(sid) => /\ Has(active_sessions, sid)
                           /\ GetS(active_sessions, sid) = Entry(sid)

(* the snapshot of the cycle lists an entry whose 'ID' is missing or empty *)
Nameless == \E i \in 1..Len(Sessions) : Sessions[i].ID \in {"", Missing}

(* C23: in a cycle whose snapshot lists an entry without a usable 'ID' and
   in which no request failed, that entry gets no record and no delivery,
   and every relevant session of the same snapshot is on record with the
   content the snapshot gives it. *)
C23_NamelessEntrySkipped ==
    (pc = "done" /\ Fetched /\ Nameless /\ failures = pre.failures)
    => /\ ~Has(active_sessions, "") /\ ~Has(active_sessions, Missing)
       /\ \A i \in 1..Len(sent) : sent[i].sid \in SessionIds
       /\ \A sid \in SessionIds :
             Relevant(sid) => /\ Has(active_sessions, sid)
                              /\ GetS(active_sessions, sid) = Entry(sid)

(* the session has no players, or its first player has no Steam id, no GOG
   id and no name *)
Hostless(session) ==
    \/ Len(session.Players) = 0
    \/ /\ session.Players[1].Steam = ""
       /\ session.Players[1].Gog = ""
       /\ session.Players[1].Name = ""

(* C24: a session the snapshot lists without players or with a first player
   that has no Steam id, no GOG id and no name is not relevant: the cycle
   sends no Create for it, creates no record for it and never puts that
   content on record. *)
C24_HostlessNeverTracked ==
    \A sid \in SessionIds :
        (Fetched /\ InSnapshot(sid) /\ Hostless(Entry(sid)))
        => /\ ~Relevant(sid)
           /\ \A i \in 1..Len(sent) : sent[i].sid = sid => sent[i].kind # "Create"
           /\ ~TrackedBefore(sid) => ~Has(active_sessions, sid)
           /\ Has(active_sessions, sid) => GetS(active_sessions, sid) # Entry(sid)

(* witness of C24: a cycle has run to its end over a snapshot that lists a
   session whose first player has no identity *)
C24_Witness ==
    /\ Completed
    /\ InSnapshot("A")
    /\ Entry("A").Players = <<Anonymous>>

(* the player matches an entry of the roster by Steam id, GOG id or name *)
OnRoster(player) ==
    \/ player.Steam \in MONITORED_STEAM_IDS
    \/ player.Gog \in MONITORED_STEAM_IDS
    \/ player.Name \in MONITORED_STEAM_IDS

(* C25: every Create is for a session that is not named 'test' (in any
   case) and whose first player is on the roster. *)
C25_CreateOnlyForRosterHosts ==
    \A i \in 1..Len(sent) :
        sent[i].kind = "Create"
        => /\ Lower(sent[i].payload.Name) # "test"
           /\ Len(sent[i].payload.Players) > 0
           /\ OnRoster(sent[i].payload.Players[1])

(* witness of C25: a Create has been sent and answered with an identifier *)
C25_Witness ==
    \E i \in 1..Len(sent) : sent[i].kind = "Create" /\ sent[i].mid # 0

(* sid is tracked with a message, was in the lobby and still is, and the
   snapshot lists one player more than its record counts *)
Grew(sid) ==
    /\ Relevant(sid)
    /\ TrackedBefore(sid)
    /\ \E wh \in WebhookSet : HeldBefore(sid, wh)
    /\ Get(pre.last_known_states, sid, "None") = "PreGame"
    /\ Entry(sid).State = "PreGame"
    /\ Entry(sid).PlayerCount = Get(pre.player_counts, sid, 0) + 1

(* C26 as stated: when a tracked lobby session has one player more than in
   the snapshot before, the cycle sends exactly one Patch per destination
   holding an identifier and posts no new message (no Create, no other
   POST) and no MarkEnded. *)
C26_JoinOnlyPatched ==
    \A sid \in SessionIds :
        (sid = focus /\ Over(sid) /\ Grew(sid) /\ sid \in fresh)
        => /\ \A wh \in WebhookSet :
                 /\ NumSent(sid, "Patch", wh) = (IF HeldBefore(sid, wh) THEN 1 ELSE 0)
                 /\ NumSent(sid, "MarkEnded", wh) = 0
           /\ \A i \in 1..Len(sent) : sent[i].kind \notin {"Create", "CountPost"}

(* C26 amended: when a tracked lobby session has one player more than its
   record counts, the cycle first posts one new player-count message to
   every destination, rendered from the snapshot that lists the joined
   player, and then patches: at most one Patch per destination, each to the
   identifier the directory holds, and at least one in all; it sends no
   MarkEnded, and a Create only after a Patch was answered 404. *)
C26_JoinPostsCountThenPatches ==
    \A sid \in SessionIds :
        (sid = focus /\ Over(sid) /\ Grew(sid))
        => /\ \A wh \in WebhookSet :
                 /\ NumSent(sid, "CountPost", wh) = 1
                 /\ NumSent(sid, "Patch", wh) <= 1
                 /\ NumSent(sid, "MarkEnded", wh) = 0
                 /\ NumSent(sid, "Create", wh) > 0 =>
                       \E w \in WebhookSet : <<sid, w>> \in notfound
           /\ \E wh \in WebhookSet : NumSent(sid, "Patch", wh) = 1
           /\ \A i \in 1..Len(sent), j \in 1..Len(sent) :
                 /\ sent[i].kind = "CountPost" => sent[i].payload = Entry(sid)
                 /\ sent[i].kind = "Patch" => (sent[i].mid = sent[i].held /\ sent[i].mid # 0)
                 /\ (sent[i].kind = "CountPost" /\ sent[j].kind = "Patch") => i < j

(* witness of C26: the player joined between two consecutive snapshots and
   the cycle has posted the count and patched every destination *)
C26_Witness ==
    \E sid \in SessionIds :
        /\ sid = focus /\ Over(sid) /\ Grew(sid) /\ sid \in fresh
        /\ \A wh \in WebhookSet :
              NumSent(sid, "CountPost", wh) = 1 /\ NumSent(sid, "Patch", wh) = 1

(* C27: the payload of every MarkEnded, of a vanished session or of the old
   game of a restart, is rendered from the session the record held when the
   cycle began, not from the entry the snapshot of the cycle has for it. *)
C27_MarkEndedRendersRecord ==
    \A i \in 1..Len(sent) :
        sent[i].kind = "MarkEnded"
        => /\ TrackedBefore(sent[i].sid)
           /\ sent[i].payload = GetS(pre.active_sessions, sent[i].sid)
           /\ InSnapshot(sent[i].sid) => sent[i].payload # Entry(sent[i].sid)

(* witness of C27: a MarkEnded was sent for a session the snapshot still
   lists, with other content than its record *)
C27_Witness ==
    \E i \in 1..Len(sent) :
        /\ sent[i].kind = "MarkEnded"
        /\ InSnapshot(sent[i].sid)
        /\ Entry(sent[i].sid) # GetS(pre.active_sessions, sent[i].sid)

(* C28: the player the joined/left summary names is the lexicographically
   smallest of the players that joined (or left), so two runs over the same
   pair of rosters name the same player. *)
C28_SummaryNamesSmallest ==
    message # <<>>
    => LET changed == IF message[2] = "joined"
                      THEN current_players_list \ previous_players_list
                      ELSE previous_players_list \ current_players_list
       IN changed # {} => message[1] = Smallest(changed)

(* the URL is a non-empty string that begins with 'http://' or 'https://' *)
WellFormed(url) ==
    /\ url # NoUrl
    /\ \E prefix \in {HttpPrefix, HttpsPrefix} :
          \E rest \in {SubSeq(url, n, Len(url)) : n \in 1..(Len(url) + 1)} :
             url = prefix \o rest

(* C29: validate_webhook_configs returns exactly the webhooks whose URL is a
   non-empty string beginning with 'http://' or 'https://', in the order
   they are configured, and message_ids gets a directory for each of them
   and for no other. *)
C29_OnlyWellFormedWebhooks ==
    /\ valid_configs # Unset =>
          /\ {valid_configs[i] : i \in 1..Len(valid_configs)}
                = {w \in WebhookSet : WellFormed(raw_configs[w])}
          /\ \A i \in 1..Len(valid_configs), j \in 1..Len(valid_configs) :
                i < j => \E a \in 1..Len(DISCORD_WEBHOOKS), b \in 1..Len(DISCORD_WEBHOOKS) :
                            /\ a < b
                            /\ DISCORD_WEBHOOKS[a] = valid_configs[i]
                            /\ DISCORD_WEBHOOKS[b] = valid_configs[j]
    /\ directories # {"unset"} =>
          directories = {w \in WebhookSet : WellFormed(raw_configs[w])}

(* witness of C29: one webhook has a well-formed URL with 'http://', the
   other a URL of another scheme, and the directories have been made *)
C29_Witness ==
    /\ directories = {"STRATCORD"}
    /\ raw_configs["STRATCORD"] = HttpPrefix \o <<"x">>
    /\ raw_configs["VSRCORD"] = <<"f", "t", "p", ":", "/", "/", "x">>

(* C30: when a cycle has ended, however it ended, every session that has an
   identifier in some destination's directory has a record. *)
C30_EveryIdentifierHasARecord ==
    pc = "done"
    => \A wh \in WebhookSet :
          \A sid \in DOMAIN message_ids[wh] : Has(active_sessions, sid)

(* witness of C30: a cycle that an exception cut short has ended while a
   destination holds an identifier *)
C30_Witness ==
    /\ pc = "done"
    /\ aborted
    /\ \E wh \in WebhookSet : DOMAIN message_ids[wh] # {}

(* the Creates of the running cycle for the slot that carry a mention tag *)
TaggedCreates(sid, wh) ==
    {i \in Indices(sid, "Create", wh) : SentFor(sid)[i].tag # ""}

(* C31: a Create carries the destination's mention tag only when the session
   has no record at that moment; so between two absences of the session a
   destination is sent at most one Create with the tag, and the Creates of a
   restart, of a not-found and of the retry of a failed Create carry none. *)
C31_TagOnlyWithoutRecord ==
    \A sid \in SessionIds, wh \in WebhookSet :
        /\ tagged[<<sid, wh>>] <= 1
        /\ TaggedCreates(sid, wh) # {}
             => /\ ~TrackedBefore(sid)
                /\ ~Restarted(sid)
                /\ \A other \in WebhookSet :
                      /\ <<sid, other>> \notin notfound
                      /\ <<sid, other>> \notin pre.create_failed

(* the tagged Create of a new session failed, and the retry of a later cycle
   went out without the tag *)
C31_Witness ==
    \E sid \in SessionIds :
        /\ <<sid, "STRATCORD">> \in pre.create_failed
        /\ tagged[<<sid, "STRATCORD">>] = 1
        /\ NumSent(sid, "Create", "STRATCORD") >= 1
        /\ TaggedCreates(sid, "STRATCORD") = {}

(* every fetch succeeds and its snapshot lacks sid, and no request raises *)
Quiet(sid) ==
    /\ pc # "idle" => (api_response.ok /\ Absent(api_response, sid))
    /\ outcome # "exc"

(* the bot holds neither a record nor an identifier for sid *)
Removed(sid) ==
    /\ ~Has(active_sessions, sid)
    /\ \A wh \in WebhookSet : sid \notin DOMAIN message_ids[wh]

(* C32: if from some poll on every fetch succeeds with a snapshot that lacks
   the session and no request raises, then from some point on the bot holds
   neither the record nor an identifier of the session. *)
C32_AbsentSessionEventuallyRemoved ==
    \A sid \in SessionIds : <>[]Quiet(sid) => <>[]Removed(sid)

(* C33: the supervisor keeps at most one child alive at any time, also when
   a file-modified event is handled after observer.start() and before main()
   has stored its first child in handler.process. *)
C33_AtMostOneChildAlive == Cardinality(alive) <= 1

(* the ids the ordered dictionary of records has a key for *)
RecordKeys == {active_sessions[i].ID : i \in 1..Len(active_sessions)}

(* C34: when a cycle has ended, and until the next one begins, active_sessions,
   player_counts, last_known_states and last_api_responses have the same
   keys. *)
C34_SameKeysAfterPoll ==
    pc \in {"done", "idle"}
    => /\ DOMAIN player_counts = RecordKeys
       /\ DOMAIN last_known_states = RecordKeys
       /\ last_api_responses = RecordKeys

(* a cycle has ended in which one session was taken off the record and
   another one is on it *)
C34_Witness ==
    /\ pc = "done"
    /\ \E gone \in SessionIds, kept \in SessionIds :
          /\ TrackedBefore(gone)
          /\ gone \notin RecordKeys
          /\ kept \in RecordKeys
          /\ kept \in DOMAIN player_counts

====
